---- MODULE Spec2Model ----
(***************************************************************************)
(* Model of the LCS gateway: the agent manager (LCSAgentManager), the      *)
(* per-agent controller (LCSController) and its TCP client (LCSTcpClient). *)
(*                                                                         *)
(* One controller record holds the fields of an LCSController, the fields  *)
(* of the LCSTcpClient it owns, the net.Socket objects that client has     *)
(* created, and the promises returned by sendPacket.  Every handler of the *)
(* source is an operator from controller record to controller record; the  *)
(* actions apply them to the controller the event belongs to.              *)
(*                                                                         *)
(* Controllers share no state: a handler reads and writes only the record  *)
(* of its own controller.  Spec follows one agent through every operation  *)
(* and event; SpecMgr follows the registry of several agents through the   *)
(* control-plane calls; SpecLive follows one agent's connection under fair *)
(* timers and socket events.                                               *)
(***************************************************************************)
EXTENDS Integers, Sequences, FiniteSets, TLC

\* ---- bounds -------------------------------------------------------------
MaxCtrl == 3        \* LCSController objects ever constructed by addAgent
MaxSock == 2        \* net.Socket objects of one client that are not yet closed
MaxReq == 2         \* sendPacket calls one client accepts (requestId values)
MaxBuffer == 48     \* bytes responseBuffer holds when a chunk arrives, the chunk included
MaxEmitted == 2     \* frames emitted before the last chunk arrives

\* ---- value spaces -------------------------------------------------------
Null == "<null>"                     \* the JavaScript null (defaultAgentId / no agentId given)
Ids == {"", "a", "b"}                \* agent ids a caller may pass (strings, "" included)
Ctrls == 1..MaxCtrl
Socks == 1..MaxSock
Reqs == 1..MaxReq

NumId(n) == "#" \o ToString(n)       \* a number passed where an agent id is expected
Falsy(x) == x = Null \/ x = "" \/ x = NumId(0)   \* JavaScript truthiness of an id-or-null value

VARIABLES
    agents,          \* LCSAgentManager.agents: insertion-ordered Map, as a sequence of [id, c]
    defaultAgentId,  \* LCSAgentManager.defaultAgentId
    nextCtrl,        \* number of controllers constructed so far
    ctrl,            \* controller index -> controller record (see NewController)
    backendStable,   \* TRUE once the backend is reachable for good (no connect fails any more)
    lastResult,      \* error of the last call of the public surface, "ok" otherwise
    lastCmd,         \* operation and arguments of the last call a manager proxy forwarded
    frame,           \* the builder on its own: arguments of its buildPacket call
    packet,          \* the builder on its own: the Buffer buildPacket returned, as bytes
    responseBuffer,  \* the receive path on its own: LCSTcpClient.responseBuffer, as bytes
    emitted,         \* the receive path on its own: packetInfo of every frame handed to
                     \* interpretResponse and emitted as 'response'
    fx               \* the running asynchronous call of a push handler: a fade, a wave or
                     \* one control call, with the controller it holds (see NoFx)

codecVars == <<frame, packet, responseBuffer, emitted>>
ioVars == <<lastCmd, codecVars, fx>>
vars == <<agents, defaultAgentId, nextCtrl, ctrl, backendStable, lastResult, ioVars>>

\* ---- LCSPacketBuilder ------------------------------------------------------
STX == 2
ETX == 3
HOST_ADDRESS == <<19, 0, 0, 0, 0>>
HeaderSize == 18

At(buf, i) == buf[i + 1]                            \* buf[i], offsets from 0
Slice(buf, from, to) == SubSeq(buf, from + 1, to)   \* buf.slice(from, to)
Bytes(list) == [i \in 1..Len(list) |-> list[i] % 256]   \* Buffer.from(list)
UInt16BE(v) == <<(v \div 256) % 256, v % 256>>      \* writeUInt16BE
UInt16LE(v) == <<v % 256, (v \div 256) % 256>>      \* writeUInt16LE
ReadUInt16LE(buf, i) == At(buf, i) + 256 * At(buf, i + 1)

\* calculateBCC, the loop: big-endian 16-bit words of data[i..end), a lone last byte is the
\* high byte of its word
RECURSIVE WordSum(_, _, _)
WordSum(data, i, end) ==
    IF i >= end
    THEN 0
    ELSE At(data, i) * 256 + (IF i + 1 < end THEN At(data, i + 1) ELSE 0)
         + WordSum(data, i + 2, end)

\* variant: the folded sum is returned without the complement
CalculateBCCPlain(data, start, end) ==
    LET sum == WordSum(data, start, end)
    IN  ((sum % 65536) + (sum \div 65536)) % 65536

\* calculateBCC: one carry fold, then the 16-bit one's complement
CalculateBCC(data, start, end) ==
    LET sum == WordSum(data, start, end)
        folded == (sum % 65536) + (sum \div 65536)
    IN  65535 - (folded % 65536)

\* variant: the BCC is written in network byte order like Length
BuildPacketBccBE(destAddr, op1, op2, data) ==
    LET totalLength == HeaderSize + Len(data)
        head == <<STX>> \o UInt16BE(totalLength) \o Bytes(destAddr) \o Bytes(HOST_ADDRESS)
                \o Bytes(<<op1, op2>>) \o data
        bcc == CalculateBCC(head \o <<0, 0, 0>>, 3, totalLength - 3)
    IN  head \o UInt16BE(bcc) \o <<ETX>>

\* buildPacket(destAddr, op1, op2, data)
BuildPacket(destAddr, op1, op2, data) ==
    LET totalLength == HeaderSize + Len(data)
        head == <<STX>> \o UInt16BE(totalLength) \o Bytes(destAddr) \o Bytes(HOST_ADDRESS)
                \o Bytes(<<op1, op2>>) \o data
        bcc == CalculateBCC(head \o <<0, 0, 0>>, 3, totalLength - 3)
    IN  head \o UInt16LE(bcc) \o <<ETX>>

Args(destAddr, op1, op2, data) == [destAddr |-> destAddr, op1 |-> op1, op2 |-> op2, data |-> data]
NoFrame == Args(<<>>, 0, 0, <<>>)

\* the buildPacket arguments each command builder passes
DeviceTypeMap == [LCS |-> 19, RCU4 |-> 85, RCU8 |-> 87]
GetLampBrightnessArgs(masterAddr, cuAddr, deviceType) ==
    Args(<<DeviceTypeMap[deviceType], masterAddr, cuAddr, 0, 0>>, 150, 0, <<>>)
GetLampColorTemperatureArgs(masterAddr, cuAddr) ==
    Args(<<19, masterAddr, cuAddr, 0, 0>>, 150, 6, <<>>)
ControlLampBlockArgs(masterAddr, cuAddr, lampList, brightness) ==
    Args(<<19, masterAddr, cuAddr, 0, 0>>, 144, 0,
         Bytes(<<cuAddr, Len(lampList)>> \o lampList \o <<brightness>>))
ControlLampDimmingArgs(masterAddr, cuAddr, lampNo, brightness) ==
    Args(<<19, masterAddr, cuAddr, 0, 0>>, 146, 0, Bytes(<<cuAddr, lampNo, 0, brightness>>))
ControlLampColorTempArgs(masterAddr, cuAddr, lampList, colorTemp) ==
    Args(<<19, masterAddr, cuAddr, 0, 0>>, 144, 5,
         Bytes(<<cuAddr, Len(lampList)>> \o lampList \o <<colorTemp>>))
ExecuteSceneArgs(masterAddr, cuAddr, sceneNo, fadeTime) ==
    Args(<<19, masterAddr, cuAddr, 0, 0>>, 145, 0, Bytes(<<cuAddr, sceneNo, fadeTime>>))
ControlAllLampsArgs(masterAddr, cuAddr, brightness) ==
    Args(<<19, masterAddr, cuAddr, 0, 0>>, 144, 2, Bytes(<<cuAddr, brightness>>))
GetDeviceNameArgs == Args(<<19, 0, 0, 0, 0>>, 162, 5, <<>>)

\* argument values of the builder calls
Addrs == {1, 2}
LampNos == {1, 5, 64}
Levels == {0, 80, 100, 300}
LampLists == {<<1>>, <<1, 5>>}
DeviceTypes == {"LCS", "RCU4", "RCU8"}

\* the buildPacket calls of the command builders over those values
Commands ==
    {GetLampBrightnessArgs(m, cu, t) : m \in Addrs, cu \in Addrs, t \in DeviceTypes}
    \cup {GetLampColorTemperatureArgs(m, cu) : m \in Addrs, cu \in Addrs}
    \cup {ControlLampBlockArgs(m, cu, ll, b) : m \in Addrs, cu \in Addrs, ll \in LampLists, b \in Levels}
    \cup {ControlLampDimmingArgs(m, cu, l, b) : m \in Addrs, cu \in Addrs, l \in LampNos, b \in Levels}
    \cup {ControlLampColorTempArgs(m, cu, ll, b) : m \in Addrs, cu \in Addrs, ll \in LampLists, b \in Levels}
    \cup {ExecuteSceneArgs(m, cu, l, f) : m \in Addrs, cu \in Addrs, l \in LampNos, f \in {0, 5}}
    \cup {ControlAllLampsArgs(m, cu, b) : m \in Addrs, cu \in Addrs, b \in Levels}
    \cup {GetDeviceNameArgs}
    \cup {ControlLampBlockArgs(152, 170, <<8>>, 83)}    \* word sum 0x1FFFF

\* ---- promises and wire ----------------------------------------------------
\* state of the promise returned by sendPacket for request r
Unsent == "none"
Pending == "pending"
Resolved == "resolved"
TimedOut == "Timeout"

\* where the bytes of a request still awaited are (NoWrite once the promise is settled)
NoWrite == [w |-> "none", s |-> 0]
Written == [w |-> "written", s |-> 0]
Dropped == [w |-> "dropped", s |-> 0]
Queued(s) == [w |-> "queued", s |-> s]

\* LCSController constructor + LCSTcpClient constructor
NewController ==
    [ isConnected       |-> FALSE,      \* LCSController.isConnected
      reconnectInterval |-> FALSE,      \* LCSController.reconnectInterval is set
      socket            |-> 0,          \* LCSTcpClient.socket (0 = null, else a socket slot)
      cliConnected      |-> FALSE,      \* LCSTcpClient.isConnected
      requestId         |-> 0,          \* LCSTcpClient.requestId
      responseCallbacks |-> {},         \* keys of LCSTcpClient.responseCallbacks
      timers            |-> {},         \* request ids whose 5 s setTimeout is live
      listeners         |-> {},         \* request ids whose responseHandler is on 'response'
      sock              |-> [s \in Socks |-> [st |-> "closed", by |-> "none"]],
      promise           |-> [r \in Reqs |-> Unsent],
      wire              |-> [r \in Reqs |-> NoWrite] ]

\* ---- LCSController handlers ---------------------------------------------
\* variant: the interval is never armed
StartReconnectTimerNever(k) == k

\* startReconnectTimer: arm the 5 s interval unless one is armed
StartReconnectTimer(k) ==
    IF k.reconnectInterval THEN k ELSE [k EXCEPT !.reconnectInterval = TRUE]

\* variant: the 'connected' handler leaves the reconnect interval running
OnConnectedKeepsTimer(k) == [k EXCEPT !.isConnected = TRUE]

\* client.on('connected')
OnConnected(k) == [k EXCEPT !.isConnected = TRUE, !.reconnectInterval = FALSE]

\* client.on('disconnected')
OnDisconnected(k) == StartReconnectTimer([k EXCEPT !.isConnected = FALSE])

\* client.on('error')
OnError(k) == [k EXCEPT !.isConnected = FALSE]

\* ---- LCSTcpClient: sockets ----------------------------------------------
HasFreeSock(k) == \E s \in Socks : k.sock[s].st = "closed"
FreeSock(k) == CHOOSE s \in Socks : k.sock[s].st = "closed" /\ \A t \in Socks : t < s => k.sock[t].st # "closed"

\* a write queued on socket s reaches the wire (to) or is discarded with the socket
SettleQueued(k, s, to) ==
    [k EXCEPT !.wire = [r \in Reqs |-> IF k.wire[r] = Queued(s) THEN to ELSE k.wire[r]]]

\* LCSTcpClient.connect: a new net.Socket replaces this.socket and starts connecting;
\* by = "ctrl" when LCSController.connect awaits it, "timer" when the interval callback does
\* (kept while the promise of connect() can still be rejected)
ClientConnect(k, by) ==
    LET s == FreeSock(k)
    IN  [k EXCEPT !.socket = s, !.sock[s] = [st |-> "connecting", by |-> by]]

\* socket.connect callback
SocketConnected(k, s) ==
    LET k1 == [k EXCEPT !.sock[s] = [st |-> "open", by |-> "none"], !.cliConnected = TRUE]
    IN  SettleQueued(OnConnected(k1), s, Written)

\* variant: the 'close' handler neither clears isConnected nor emits 'disconnected'
SocketCloseKeepsFlag(k, s) ==
    SettleQueued([k EXCEPT !.sock[s] = [st |-> "closed", by |-> "none"]], s, Dropped)

\* socket.on('close')
SocketClose(k, s) ==
    LET k1 == [k EXCEPT !.sock[s] = [st |-> "closed", by |-> "none"], !.cliConnected = FALSE]
    IN  SettleQueued(OnDisconnected(k1), s, Dropped)

\* socket.on('error'): the promise of connect() is rejected
SocketError(k, s) == OnError([k EXCEPT !.cliConnected = FALSE])

\* LCSController.connect, catch branch (the awaited client.connect() rejected)
ConnectRejected(k, by) == IF by = "ctrl" THEN StartReconnectTimer(k) ELSE k

\* variant: tearing a live socket down also emits 'disconnected' at once
DestroyEmits(k, s) ==
    IF k.sock[s].st \in {"connecting", "open"}
    THEN OnDisconnected(SettleQueued([k EXCEPT !.sock[s] = [st |-> "destroyed", by |-> "none"]], s, Dropped))
    ELSE k

\* socket.destroy(): a connecting or open socket is torn down, its 'close' is emitted later
Destroy(k, s) ==
    IF k.sock[s].st \in {"connecting", "open"}
    THEN SettleQueued([k EXCEPT !.sock[s] = [st |-> "destroyed", by |-> "none"]], s, Dropped)
    ELSE k

\* LCSTcpClient.disconnect
ClientDisconnect(k) ==
    IF k.socket # 0
    THEN [Destroy(k, k.socket) EXCEPT !.cliConnected = FALSE]
    ELSE k

\* LCSController.disconnect
CtrlDisconnect(k) ==
    LET k1 == [k EXCEPT !.reconnectInterval = FALSE]
        k2 == ClientDisconnect(k1)
    IN  [k2 EXCEPT !.isConnected = FALSE]

\* ---- LCSTcpClient: requests ---------------------------------------------
\* socket.write(packet) on this.socket
WriteTo(k) ==
    LET st == k.sock[k.socket].st
    IN  IF st = "open" THEN Written
        ELSE IF st = "connecting" THEN Queued(k.socket)
        ELSE Dropped

\* variant: sendPacket without the 5 s timeout
SendPacketNoTimer(k) ==
    LET r == k.requestId + 1
    IN  [k EXCEPT !.requestId = r,
                  !.responseCallbacks = @ \cup {r},
                  !.listeners = @ \cup {r},
                  !.promise[r] = Pending,
                  !.wire[r] = WriteTo(k)]

\* sendPacket when this.isConnected: new id, timeout, callback entry, listener, write
SendPacket(k) ==
    LET r == k.requestId + 1
    IN  [k EXCEPT !.requestId = r,
                  !.timers = @ \cup {r},
                  !.responseCallbacks = @ \cup {r},
                  !.listeners = @ \cup {r},
                  !.promise[r] = Pending,
                  !.wire[r] = WriteTo(k)]

\* variant: the timeout callback clears the whole callback map
OnTimeoutClearsAll(k, r) ==
    [k EXCEPT !.timers = @ \ {r},
              !.wire[r] = NoWrite,
              !.responseCallbacks = {},
              !.promise[r] = IF @ = Pending THEN TimedOut ELSE @]

\* the setTimeout callback of request r
OnTimeout(k, r) ==
    [k EXCEPT !.timers = @ \ {r},
              !.wire[r] = NoWrite,
              !.responseCallbacks = @ \ {r},
              !.promise[r] = IF @ = Pending THEN TimedOut ELSE @]

\* variant: a responseHandler acts without looking up its callback entry
EmitResponseUnchecked(k) ==
    LET hit == k.listeners
    IN  [k EXCEPT !.timers = @ \ hit,
                  !.wire = [r \in Reqs |-> IF r \in hit THEN NoWrite ELSE @[r]],
                  !.responseCallbacks = @ \ hit,
                  !.listeners = @ \ hit,
                  !.promise = [r \in Reqs |-> IF r \in hit /\ @[r] = Pending
                                              THEN Resolved ELSE @[r]]]

\* emit('response', frame): every registered responseHandler runs
EmitResponse(k) ==
    LET hit == k.listeners \cap k.responseCallbacks
    IN  [k EXCEPT !.timers = @ \ hit,
                  !.wire = [r \in Reqs |-> IF r \in hit THEN NoWrite ELSE @[r]],
                  !.responseCallbacks = @ \ hit,
                  !.listeners = @ \ hit,
                  !.promise = [r \in Reqs |-> IF r \in hit /\ @[r] = Pending
                                              THEN Resolved ELSE @[r]]]

\* handleResponse for a chunk that completes one frame
HandleResponse(k) == EmitResponse(k)

\* ---- LCSController: effects, and the push handlers that await a call -----------
FadeSteps == 20

\* fadeControl: Math.round(startBrightness + stepSize * i) with stepSize = (end - start) / 20.
\* In IEEE-754 doubles the product stepSize * i can fall just below an exact half; for
\* levels 0..100 that happens for (0,82), (1,83), (2,84) at i = 15 (4.1 * 15 is
\* 61.49999999999999), where Math.round gives the lower integer.
FloatBelowHalf == {<<0, 82, 15>>, <<1, 83, 15>>, <<2, 84, 15>>}
FadeLevel(start, end, i) ==
    LET halfUp == (2 * (FadeSteps * start + (end - start) * i) + FadeSteps) \div (2 * FadeSteps)
    IN  IF <<start, end, i>> \in FloatBelowHalf THEN halfUp - 1 ELSE halfUp

\* the controlLamp calls an effect makes, in order
FadePlan(lampNo, start, end) ==
    [n \in 1..(FadeSteps + 1) |-> [lampNo |-> lampNo, brightness |-> FadeLevel(start, end, n - 1)]]
WavePlan(lampList, brightness) ==
    [n \in 1..Len(lampList) |-> [lampNo |-> lampList[n], brightness |-> brightness]]
ControlPlan(lampNo, brightness) == <<[lampNo |-> lampNo, brightness |-> brightness]>>

\* is a setTimeout awaited after the n-th command
SleepsAfter(kind, n, last) == kind = "wave" \/ (kind = "fade" /\ n < last)

NoFx ==
    [ kind   |-> "none",    \* "fade", "wave" or "control"
      c      |-> 0,         \* the controller object the call holds (0: none resolved)
      plan   |-> <<>>,      \* the controlLamp calls it will make
      n      |-> 0,         \* commands issued so far
      phase  |-> "idle",    \* "awaiting" a sendPacket promise, "sleeping", or "done"
      req    |-> 0,         \* requestId of the awaited promise
      sent   |-> <<>>,      \* the commands handed to sendPacket, in order
      acked  |-> 0,         \* awaited promises that resolved
      sleeps |-> 0,         \* setTimeout sleeps started
      notes  |-> <<>>,      \* events emitted to the sockets, in order
      error  |-> "none" ]   \* the error the call was rejected with

\* variant: the status change is broadcast whether the call succeeded or not
FailBroadcasts(f, err) ==
    [f EXCEPT !.phase = "done", !.error = err,
              !.notes = @ \o (IF f.kind = "control" THEN <<"response_error", "broadcast">>
                                                    ELSE <<"error">>)]

\* the promise is rejected: the handler's catch emits the error event
Fail(f, err) ==
    [f EXCEPT !.phase = "done", !.error = err,
              !.notes = Append(@, IF f.kind = "control" THEN "response_error" ELSE "error")]

\* the promise is resolved: the handler emits its success events
Complete(f) ==
    [f EXCEPT !.phase = "done",
              !.notes = @ \o (IF f.kind = "control" THEN <<"response", "broadcast">>
                                                    ELSE <<"completed">>)]

\* a settled request leaves no entry behind (callback, timer and listener are gone), so its
\* id is handed out again: ids only key the callback map
Forget(k, r) == [k EXCEPT !.requestId = r - 1, !.promise[r] = Unsent]

\* LCSController.controlLamp, LCSTcpClient.controlLamp, sendPacket for the next command
ControlLampStep(k, f) ==
    IF ~k.isConnected \/ ~k.cliConnected
    THEN [k |-> k, f |-> Fail(f, "NotConnected")]
    ELSE [k |-> SendPacket(k),
          f |-> [f EXCEPT !.n = @ + 1, !.phase = "awaiting", !.req = k.requestId + 1,
                          !.sent = Append(@, f.plan[f.n + 1])]]

\* fadeControl / waveEffect / controlLamp entered on controller k
Enter(k, f) ==
    IF ~k.isConnected THEN [k |-> k, f |-> Fail(f, "NotConnected")]
    ELSE IF f.plan = <<>> THEN [k |-> k, f |-> Complete(f)]
    ELSE ControlLampStep(k, f)

\* variant: a rejected step is treated like an acknowledged one
ResumeIgnoresFailure(k, f) ==
    LET f1 == [f EXCEPT !.acked = @ + (IF k.promise[f.req] = Resolved THEN 1 ELSE 0)]
        k1 == IF k.promise[f.req] = Resolved THEN Forget(k, f.req) ELSE k
    IN  IF SleepsAfter(f.kind, f.n, Len(f.plan))
        THEN [k |-> k1, f |-> [f1 EXCEPT !.phase = "sleeping", !.sleeps = @ + 1]]
        ELSE [k |-> k1, f |-> Complete(f1)]

\* the awaited sendPacket promise has settled: the loop body continues
Resume(k, f) ==
    IF k.promise[f.req] = Resolved
    THEN LET f1 == [f EXCEPT !.acked = @ + 1]
         IN  IF SleepsAfter(f.kind, f.n, Len(f.plan))
             THEN [k |-> Forget(k, f.req), f |-> [f1 EXCEPT !.phase = "sleeping", !.sleeps = @ + 1]]
             ELSE [k |-> Forget(k, f.req), f |-> Complete(f1)]
    ELSE [k |-> k, f |-> Fail(f, k.promise[f.req])]

\* variant: the sleep never resolves, the loop is not continued
WakeStalls(k, f) == [k |-> k, f |-> f]

\* the sleep's setTimeout fires: next loop iteration, or the loop ends
Wake(k, f) ==
    IF f.n = Len(f.plan)
    THEN [k |-> k, f |-> Complete(f)]
    ELSE ControlLampStep(k, f)

\* ---- LCSAgentManager ----------------------------------------------------
RegIds == {agents[i].id : i \in 1..Len(agents)}
RegCtrls == {agents[i].c : i \in 1..Len(agents)}
Has(id) == id \in RegIds
Get(id) == (CHOOSE i \in 1..Len(agents) : agents[i].id = id)
CtrlOf(id) == agents[Get(id)].c
Allocated == 1..nextCtrl

\* variant: the delete turns the order of the remaining entries around
DeleteReversed(reg, id) ==
    LET rest == SelectSeq(reg, LAMBDA e : e.id # id)
    IN  [i \in 1..Len(rest) |-> rest[Len(rest) + 1 - i]]

\* Map.delete(id)
Delete(reg, id) == SelectSeq(reg, LAMBDA e : e.id # id)

\* variant: removeAgent leaves defaultAgentId alone
PromoteDefaultNever(reg, def, id) == def

\* removeAgent: the default after the delete
PromoteDefault(reg, def, id) ==
    IF def = id
    THEN (IF Len(reg) > 0 THEN reg[1].id ELSE Null)
    ELSE def

\* addAgent: the default after the insert
FirstDefault(def, id) == IF Falsy(def) THEN id ELSE def

\* no call forwarded yet
NoCmd == [op |-> "none", args |-> <<>>]

\* getAgent: the id looked up
TargetId(agentId) == IF Falsy(agentId) THEN defaultAgentId ELSE agentId

Init ==
    /\ agents = <<>>
    /\ defaultAgentId = Null
    /\ nextCtrl = 0
    /\ ctrl = [c \in Ctrls |-> NewController]
    /\ backendStable = FALSE
    /\ lastResult = "ok"
    /\ lastCmd = NoCmd
    /\ frame = NoFrame
    /\ packet = <<>>
    /\ responseBuffer = <<>>
    /\ emitted = <<>>
    /\ fx = NoFx

\* variant: addAgent without the duplicate check (Map.set replaces the controller in place)
AddAgentOverwrites(id) ==
    /\ UNCHANGED <<backendStable, ioVars>>
    /\ nextCtrl < MaxCtrl
    /\ nextCtrl' = nextCtrl + 1
    /\ agents' = IF Has(id) THEN [agents EXCEPT ![Get(id)].c = nextCtrl + 1]
                            ELSE Append(agents, [id |-> id, c |-> nextCtrl + 1])
    /\ defaultAgentId' = FirstDefault(defaultAgentId, id)
    /\ ctrl' = [ctrl EXCEPT ![nextCtrl + 1] = ClientConnect(NewController, "ctrl")]
    /\ lastResult' = "ok"

\* addAgent(id, host, port)
AddAgent(id) ==
    /\ UNCHANGED <<backendStable, ioVars>>
    /\ IF Has(id)
       THEN /\ lastResult' = "DuplicateId"
            /\ UNCHANGED <<agents, defaultAgentId, nextCtrl, ctrl>>
       ELSE /\ nextCtrl < MaxCtrl
            /\ nextCtrl' = nextCtrl + 1
            /\ agents' = Append(agents, [id |-> id, c |-> nextCtrl + 1])
            /\ defaultAgentId' = FirstDefault(defaultAgentId, id)
            /\ ctrl' = [ctrl EXCEPT ![nextCtrl + 1] = ClientConnect(NewController, "ctrl")]
            /\ lastResult' = "ok"

\* removeAgent(id)
RemoveAgent(id) ==
    /\ UNCHANGED <<nextCtrl, backendStable, ioVars>>
    /\ IF ~Has(id)
       THEN /\ lastResult' = "false"
            /\ UNCHANGED <<agents, defaultAgentId, ctrl>>
       ELSE /\ ctrl' = [ctrl EXCEPT ![CtrlOf(id)] = CtrlDisconnect(@)]
            /\ agents' = Delete(agents, id)
            /\ defaultAgentId' = PromoteDefault(Delete(agents, id), defaultAgentId, id)
            /\ lastResult' = "ok"

\* variant: setDefaultAgent without the registry check
SetDefaultAgentUnchecked(id) ==
    /\ UNCHANGED <<agents, nextCtrl, ctrl, backendStable, ioVars>>
    /\ defaultAgentId' = id
    /\ lastResult' = "ok"

\* setDefaultAgent(id)
SetDefaultAgent(id) ==
    /\ UNCHANGED <<agents, nextCtrl, ctrl, backendStable, ioVars>>
    /\ IF ~Has(id)
       THEN /\ lastResult' = "false"
            /\ UNCHANGED defaultAgentId
       ELSE /\ defaultAgentId' = id
            /\ lastResult' = "ok"

\* reconnectAgent(id)
ReconnectAgent(id) ==
    /\ UNCHANGED <<agents, defaultAgentId, nextCtrl, backendStable, ioVars>>
    /\ IF ~Has(id)
       THEN /\ lastResult' = "UnknownAgent"
            /\ UNCHANGED ctrl
       ELSE /\ HasFreeSock(ctrl[CtrlOf(id)])
            /\ ctrl' = [ctrl EXCEPT ![CtrlOf(id)] = ClientConnect(@, "ctrl")]
            /\ lastResult' = "ok"

\* disconnectAll()
DisconnectAll ==
    /\ ctrl' = [c \in Ctrls |-> IF c \in RegCtrls THEN CtrlDisconnect(ctrl[c]) ELSE ctrl[c]]
    /\ agents' = <<>>
    /\ defaultAgentId' = Null
    /\ lastResult' = "ok"
    /\ UNCHANGED <<nextCtrl, backendStable, ioVars>>

\* a manager proxy (controlLamp, ...): getAgent, LCSController.controlLamp,
\* LCSTcpClient.controlLamp, sendPacket
Send(agentId) ==
    /\ UNCHANGED <<agents, defaultAgentId, nextCtrl, backendStable, ioVars>>
    /\ IF ~Has(TargetId(agentId))
       THEN /\ lastResult' = "UnknownAgent"
            /\ UNCHANGED ctrl
       ELSE LET c == CtrlOf(TargetId(agentId))
            IN  IF ~ctrl[c].isConnected \/ ~ctrl[c].cliConnected
                THEN /\ lastResult' = "NotConnected"
                     /\ UNCHANGED ctrl
                ELSE /\ ctrl[c].requestId < MaxReq
                     /\ ctrl' = [ctrl EXCEPT ![c] = SendPacket(@)]
                     /\ lastResult' = "ok"

Event == lastResult' = "ok" /\ UNCHANGED <<agents, defaultAgentId, nextCtrl, backendStable, ioVars>>

\* the reconnect interval fires: client.connect()
Tick(c) ==
    /\ c \in Allocated
    /\ ctrl[c].reconnectInterval
    /\ HasFreeSock(ctrl[c])
    /\ ctrl' = [ctrl EXCEPT ![c] = ClientConnect(@, "timer")]
    /\ Event

\* TCP connect of socket s succeeded
ConnectOk(c, s) ==
    /\ c \in Allocated
    /\ ctrl[c].sock[s].st = "connecting"
    /\ ctrl' = [ctrl EXCEPT ![c] = SocketConnected(@, s)]
    /\ Event

\* TCP connect of socket s failed: 'error' then 'close', then the awaiting catch
ConnectFail(c, s) ==
    /\ c \in Allocated
    /\ ~backendStable
    /\ ctrl[c].sock[s].st = "connecting"
    /\ ctrl' = [ctrl EXCEPT ![c] = ConnectRejected(SocketClose(SocketError(@, s), s), ctrl[c].sock[s].by)]
    /\ Event

\* the peer closed open socket s: 'close'
PeerClose(c, s) ==
    /\ c \in Allocated
    /\ ctrl[c].sock[s].st = "open"
    /\ ctrl' = [ctrl EXCEPT ![c] = SocketClose(@, s)]
    /\ Event

\* open socket s failed (e.g. ECONNRESET): 'error' then 'close'
SockError(c, s) ==
    /\ c \in Allocated
    /\ ctrl[c].sock[s].st = "open"
    /\ ctrl' = [ctrl EXCEPT ![c] = SocketClose(SocketError(@, s), s)]
    /\ Event

\* the 'close' of a socket torn down by destroy() is delivered
CloseEvent(c, s) ==
    /\ c \in Allocated
    /\ ctrl[c].sock[s].st = "destroyed"
    /\ ctrl' = [ctrl EXCEPT ![c] = SocketClose(@, s)]
    /\ Event

\* variant: one 'response' emitter shared by every client
DataShared(c, s) ==
    /\ c \in Allocated
    /\ ctrl[c].sock[s].st = "open"
    /\ ctrl' = [d \in Ctrls |-> HandleResponse(ctrl[d])]
    /\ Event

\* open socket s delivers a chunk that completes one frame
Data(c, s) ==
    /\ c \in Allocated
    /\ ctrl[c].sock[s].st = "open"
    /\ ctrl' = [ctrl EXCEPT ![c] = HandleResponse(@)]
    /\ Event

\* the 5 s timeout of request r fires (timers of equal delay fire in creation order)
Timeout(c, r) ==
    /\ c \in Allocated
    /\ r \in ctrl[c].timers
    /\ \A q \in ctrl[c].timers : r <= q
    /\ ctrl' = [ctrl EXCEPT ![c] = OnTimeout(@, r)]
    /\ Event

\* from here on the backend accepts every connection
Stabilise ==
    /\ ~backendStable
    /\ backendStable' = TRUE
    /\ lastResult' = "ok"
    /\ UNCHANGED <<agents, defaultAgentId, nextCtrl, ctrl, ioVars>>

\* the first addAgent of a deployment
AddFirstAgent(id) == nextCtrl = 0 /\ AddAgent(id)

\* addAgent called again with an id that is registered
AddAgainAgent(id) == id \in RegIds /\ AddAgent(id)

\* one agent over its whole life: every operation and every event of its client
Next ==
    \/ \E id \in Ids : AddFirstAgent(id)
    \/ \E id \in Ids : AddAgainAgent(id)
    \/ \E id \in Ids : RemoveAgent(id)
    \/ \E id \in Ids : SetDefaultAgent(id)
    \/ \E id \in Ids : ReconnectAgent(id)
    \/ DisconnectAll
    \/ \E id \in Ids \cup {Null} : Send(id)
    \/ \E c \in Ctrls : Tick(c)
    \/ \E c \in Ctrls, s \in Socks : ConnectOk(c, s)
    \/ \E c \in Ctrls, s \in Socks : ConnectFail(c, s)
    \/ \E c \in Ctrls, s \in Socks : PeerClose(c, s)
    \/ \E c \in Ctrls, s \in Socks : SockError(c, s)
    \/ \E c \in Ctrls, s \in Socks : CloseEvent(c, s)
    \/ \E c \in Ctrls, s \in Socks : Data(c, s)
    \/ \E c \in Ctrls, r \in Reqs : Timeout(c, r)

Spec == Init /\ [][Next]_vars

\* the registry under every sequence of control-plane calls, up to MaxCtrl agents
NextMgr ==
    \/ \E id \in Ids : AddAgent(id)
    \/ \E id \in Ids : RemoveAgent(id)
    \/ \E id \in Ids : SetDefaultAgent(id)
    \/ \E id \in Ids : ReconnectAgent(id)
    \/ DisconnectAll

SpecMgr == Init /\ [][NextMgr]_vars

\* the connection life cycle of one agent, with a backend that becomes reachable for good;
\* requests are left out: no request handler reads or writes a connection field
NextLive ==
    \/ \E id \in Ids : AddFirstAgent(id)
    \/ \E id \in Ids : RemoveAgent(id)
    \/ \E id \in Ids : ReconnectAgent(id)
    \/ DisconnectAll
    \/ \E c \in Ctrls : Tick(c)
    \/ \E c \in Ctrls, s \in Socks : ConnectOk(c, s)
    \/ \E c \in Ctrls, s \in Socks : ConnectFail(c, s)
    \/ \E c \in Ctrls, s \in Socks : PeerClose(c, s)
    \/ \E c \in Ctrls, s \in Socks : SockError(c, s)
    \/ \E c \in Ctrls, s \in Socks : CloseEvent(c, s)
    \/ Stabilise

\* timers fire and socket events are delivered: the event loop runs every callback that is due
Fairness ==
    /\ \A c \in Ctrls : WF_vars(Tick(c))
    /\ \A c \in Ctrls, s \in Socks : WF_vars(ConnectOk(c, s))
    /\ \A c \in Ctrls, s \in Socks : WF_vars(CloseEvent(c, s))

SpecLive == Init /\ [][NextLive]_vars /\ Fairness

\* ---- LCSTcpClient: the receive path, byte by byte --------------------------
Incomplete == [isComplete |-> FALSE]

\* variant: ETX is looked for in the last byte received so far
ParseResponsePacketLastByte(buffer) ==
    IF Len(buffer) < 18 THEN Incomplete
    ELSE IF At(buffer, 0) # 2 THEN Incomplete
    ELSE LET packetLength == ReadUInt16LE(buffer, 1)
         IN  IF Len(buffer) < packetLength THEN Incomplete
             ELSE IF packetLength < 1 \/ At(buffer, Len(buffer) - 1) # 3 THEN Incomplete
             ELSE LET dataLength == packetLength - 18
                  IN  [isComplete |-> TRUE,
                       totalLength |-> packetLength,
                       destAddr |-> Slice(buffer, 3, 8),
                       srcAddr |-> Slice(buffer, 8, 13),
                       op1 |-> At(buffer, 13),
                       op2 |-> At(buffer, 14),
                       data |-> Slice(buffer, 15, 15 + dataLength),
                       bcc |-> ReadUInt16LE(buffer, 15 + dataLength)]

\* parseResponsePacket(buffer)
ParseResponsePacket(buffer) ==
    IF Len(buffer) < 18 THEN Incomplete
    ELSE IF At(buffer, 0) # 2 THEN Incomplete
    ELSE LET packetLength == ReadUInt16LE(buffer, 1)
         IN  IF Len(buffer) < packetLength THEN Incomplete
             ELSE IF packetLength < 1 \/ At(buffer, packetLength - 1) # 3 THEN Incomplete
             ELSE LET dataLength == packetLength - 18
                  IN  [isComplete |-> TRUE,
                       totalLength |-> packetLength,
                       destAddr |-> Slice(buffer, 3, 8),
                       srcAddr |-> Slice(buffer, 8, 13),
                       op1 |-> At(buffer, 13),
                       op2 |-> At(buffer, 14),
                       data |-> Slice(buffer, 15, 15 + dataLength),
                       bcc |-> ReadUInt16LE(buffer, 15 + dataLength)]

\* handleResponse, the while loop: buffer left over and frames emitted
RECURSIVE Drain(_, _)
Drain(buffer, out) ==
    IF Len(buffer) >= 18
    THEN LET packetInfo == ParseResponsePacket(buffer)
         IN  IF packetInfo.isComplete
             THEN Drain(Slice(buffer, packetInfo.totalLength, Len(buffer)), Append(out, packetInfo))
             ELSE [buffer |-> buffer, out |-> out]
    ELSE [buffer |-> buffer, out |-> out]

\* the frames that arrive: the builder's frames for two commands
RxFrames == {GetLampBrightnessArgs(1, 1, "LCS"), ControlLampDimmingArgs(1, 1, 5, 80)}
Encode(f) == BuildPacket(f.destAddr, f.op1, f.op2, f.data)

\* the same frame with Length little-endian, as parseResponsePacket reads it
LengthLE(pkt) == <<pkt[1], pkt[3], pkt[2]>> \o SubSeq(pkt, 4, Len(pkt))
\* a frame whose stored BCC is wrong (low byte inverted)
BadBcc(pkt) == [pkt EXCEPT ![Len(pkt) - 2] = 255 - @]
\* a frame whose last byte is not ETX
BadEtx(pkt) == [pkt EXCEPT ![Len(pkt)] = 0]

RxKinds == {"wire", "le", "garbage", "badetx", "badbcc"}
Chunk(f, kind) ==
    CASE kind = "wire" -> Encode(f)
      [] kind = "le" -> LengthLE(Encode(f))
      [] kind = "garbage" -> <<255>> \o LengthLE(Encode(f))
      [] kind = "badetx" -> BadEtx(LengthLE(Encode(f))) \o LengthLE(Encode(f))
      [] kind = "badbcc" -> BadBcc(LengthLE(Encode(f)))

\* socket 'data': handleResponse(data)
Receive(data) ==
    /\ Len(responseBuffer) + Len(data) <= MaxBuffer
    /\ Len(emitted) < MaxEmitted
    /\ LET r == Drain(responseBuffer \o data, emitted)
       IN  /\ responseBuffer' = r.buffer
           /\ emitted' = r.out
    /\ UNCHANGED <<agents, defaultAgentId, nextCtrl, ctrl, backendStable, lastResult, lastCmd,
                   frame, packet, fx>>

NextCodec == \E f \in RxFrames, kind \in RxKinds : Receive(Chunk(f, kind))

SpecCodec == Init /\ [][NextCodec]_vars

\* ---- the receive path of one agent over its connections -------------------------
\* where a frame is cut when TCP delivers it in two chunks
CutAt == 10

\* what a socket delivers: a frame the parser accepts, whole, or its first or second part,
\* or the end of one frame together with the start of the next
StreamFrame == LengthLE(Encode(GetLampBrightnessArgs(1, 1, "LCS")))
StreamChunks ==
    {StreamFrame, SubSeq(StreamFrame, 1, CutAt), SubSeq(StreamFrame, CutAt + 1, Len(StreamFrame)),
     SubSeq(StreamFrame, CutAt + 1, Len(StreamFrame)) \o SubSeq(StreamFrame, 1, CutAt)}

\* byte streams that arrive next: every chunk above, two frames back to back, and a frame
\* followed by the first part of the next
Streams ==
    {Chunk(f, kind) : f \in RxFrames, kind \in RxKinds}
        \cup {LengthLE(Encode(f)) \o LengthLE(Encode(g)) : f \in RxFrames, g \in RxFrames}
        \cup {LengthLE(Encode(f)) \o SubSeq(LengthLE(Encode(g)), 1, CutAt) : f \in RxFrames, g \in RxFrames}

\* open socket s of the agent delivers a chunk: socket.on('data'), handleResponse, and the
\* 'response' listeners for a frame that was decoded
SockData(c, s, data) ==
    /\ c \in Allocated
    /\ ctrl[c].sock[s].st = "open"
    /\ Len(responseBuffer) + Len(data) <= MaxBuffer
    /\ Len(emitted) < MaxEmitted
    /\ LET r == Drain(responseBuffer \o data, emitted)
       IN  /\ responseBuffer' = r.buffer
           /\ emitted' = r.out
           /\ ctrl' = [ctrl EXCEPT ![c] = IF r.out # emitted THEN HandleResponse(@) ELSE @]
    /\ lastResult' = "ok"
    /\ UNCHANGED <<agents, defaultAgentId, nextCtrl, backendStable, lastCmd, frame, packet, fx>>

NextStream ==
    \/ \E id \in Ids : AddFirstAgent(id)
    \/ \E c \in Ctrls : Tick(c)
    \/ \E c \in Ctrls, s \in Socks : ConnectOk(c, s)
    \/ \E c \in Ctrls, s \in Socks : PeerClose(c, s)
    \/ \E c \in Ctrls, s \in Socks, data \in StreamChunks : SockData(c, s, data)

SpecStream == Init /\ [][NextStream]_vars

\* ---- the packet builder on its own ------------------------------------------
\* a command builder runs: buildPacket(destAddr, op1, op2, data)
Build(f) ==
    /\ frame' = f
    /\ packet' = BuildPacket(f.destAddr, f.op1, f.op2, f.data)
    /\ UNCHANGED <<agents, defaultAgentId, nextCtrl, ctrl, backendStable, lastResult, lastCmd,
                   responseBuffer, emitted, fx>>

NextBuild == \E f \in Commands : Build(f)

SpecBuild == Init /\ [][NextBuild]_vars

\* ---- the front ends: socket.io handlers and REST routes ---------------------
\* the request operations of LCSController
ClientOps ==
    {"getLampBrightness", "getLampColorTemperature", "controlLamp", "controlLampBlock",
     "controlColorTemperature", "executeScene", "controlAllLamps", "getDeviceInfo",
     "fadeControl", "waveEffect"}

\* the proxy methods LCSAgentManager defines
ManagerProxies ==
    {"controlLamp", "controlLampBlock", "controlColorTemperature", "executeScene",
     "controlAllLamps", "getLampBrightness", "fadeControl", "waveEffect"}

\* the operations the requests of this model ask for: two with and two without a proxy
ApiOps == {"controlLamp", "getLampBrightness", "getLampColorTemperature", "getDeviceInfo"}

\* lcsAgentManager[op](agentId, ...args) inside a handler's try/catch
Proxy(op, agentId, args) ==
    /\ UNCHANGED <<agents, defaultAgentId, nextCtrl, backendStable>>
    /\ IF op \notin ManagerProxies
       THEN /\ lastResult' = "TypeError"
            /\ UNCHANGED <<ctrl, ioVars>>
       ELSE IF ~Has(TargetId(agentId))
       THEN /\ lastResult' = "UnknownAgent"
            /\ UNCHANGED <<ctrl, ioVars>>
       ELSE LET c == CtrlOf(TargetId(agentId))
            IN  IF ~ctrl[c].isConnected \/ ~ctrl[c].cliConnected
                THEN /\ lastResult' = "NotConnected"
                     /\ UNCHANGED <<ctrl, ioVars>>
                ELSE /\ ctrl[c].requestId < MaxReq
                     /\ ctrl' = [ctrl EXCEPT ![c] = SendPacket(@)]
                     /\ lastCmd' = [op |-> op, args |-> args]
                     /\ UNCHANGED <<codecVars, fx>>
                     /\ lastResult' = "ok"

\* the arguments a socket.io client passes after the agent id
SocketArgs == <<1, 1, 5, 80>>

\* a socket.io handler: lcsAgentManager[op](agentId, ...)
ApiCall(op, agentId) == op \in ClientOps /\ Proxy(op, agentId, SocketArgs)

\* POST /lcs/lamps/:masterAddr/:cuAddr/:lampNo/control with body {brightness}
RestControlLamp(masterAddr, cuAddr, lampNo, brightness) ==
    IF brightness < 0 \/ brightness > 100
    THEN /\ lastResult' = "400"
         /\ UNCHANGED <<agents, defaultAgentId, nextCtrl, ctrl, backendStable, ioVars>>
    ELSE LET passed == <<masterAddr, cuAddr, lampNo, brightness>>
         IN  Proxy("controlLamp", NumId(Head(passed)), Tail(passed))

\* path and body values of the REST requests
RestAddrs == {0, 1}
RestLamps == {5}
RestLevels == {80, 101}

\* one agent serving socket.io and REST requests
NextApi ==
    \/ \E id \in Ids : AddFirstAgent(id)
    \/ \E op \in ApiOps, id \in Ids \cup {Null} : ApiCall(op, id)
    \/ \E m \in RestAddrs, cu \in RestAddrs, l \in RestLamps, b \in RestLevels :
           RestControlLamp(m, cu, l, b)
    \/ \E c \in Ctrls : Tick(c)
    \/ \E c \in Ctrls, s \in Socks : ConnectOk(c, s)
    \/ \E c \in Ctrls, s \in Socks : ConnectFail(c, s)
    \/ \E c \in Ctrls, s \in Socks : PeerClose(c, s)
    \/ \E c \in Ctrls, s \in Socks : Data(c, s)
    \/ \E c \in Ctrls, r \in Reqs : Timeout(c, r)

SpecApi == Init /\ [][NextApi]_vars

\* ---- the push handlers that await a call: control, fade, wave -----------------
FadeRanges == {<<0, 100>>, <<0, 82>>}

\* the calls a socket.io client makes: lcs_control_lamp, lcs_fade_control, lcs_wave_effect
FxCalls ==
    {[kind |-> "control", plan |-> ControlPlan(5, 80)]}
        \cup {[kind |-> "fade", plan |-> FadePlan(5, r[1], r[2])] : r \in FadeRanges}
        \cup {[kind |-> "wave", plan |-> WavePlan(l, 80)] : l \in LampLists}

\* the promise reactions that run before the event loop takes its next callback
Continue(k, f) ==
    IF f.phase = "awaiting" /\ k.promise[f.req] \in {Resolved, TimedOut}
    THEN Resume(k, f)
    ELSE [k |-> k, f |-> f]

\* a handler receives its event: fade and wave emit 'started' first, then the manager proxy
\* resolves the agent and enters the controller's method
FxStart(call, agentId) ==
    /\ fx.kind = "none"
    /\ LET f0 == [NoFx EXCEPT !.kind = call.kind, !.plan = call.plan,
                              !.notes = IF call.kind = "control" THEN <<>> ELSE <<"started">>]
       IN  IF ~Has(TargetId(agentId))
           THEN /\ fx' = Fail(f0, "UnknownAgent")
                /\ UNCHANGED ctrl
           ELSE LET c == CtrlOf(TargetId(agentId))
                    r == Enter(ctrl[c], [f0 EXCEPT !.c = c])
                IN  /\ ctrl[c].requestId < MaxReq
                    /\ ctrl' = [ctrl EXCEPT ![c] = r.k]
                    /\ fx' = r.f
    /\ lastResult' = "ok"
    /\ UNCHANGED <<agents, defaultAgentId, nextCtrl, backendStable, lastCmd, codecVars>>

\* the sleep of the running effect ends
FxWake ==
    /\ fx.phase = "sleeping"
    /\ LET r == Wake(ctrl[fx.c], fx)
       IN  /\ ctrl' = [ctrl EXCEPT ![fx.c] = r.k]
           /\ fx' = r.f
    /\ lastResult' = "ok"
    /\ UNCHANGED <<agents, defaultAgentId, nextCtrl, backendStable, lastCmd, codecVars>>

\* a client event handler h runs on controller c, then the reactions of the promise it settled
FxEvent(c, h) ==
    LET r == Continue(h, IF fx.c = c THEN fx ELSE NoFx)
    IN  /\ ctrl' = [ctrl EXCEPT ![c] = r.k]
        /\ fx' = IF fx.c = c THEN r.f ELSE fx
        /\ lastResult' = "ok"
        /\ UNCHANGED <<agents, defaultAgentId, nextCtrl, backendStable, lastCmd, codecVars>>

\* open socket s delivers a chunk that completes one frame
FxData(c, s) ==
    /\ c \in Allocated
    /\ ctrl[c].sock[s].st = "open"
    /\ FxEvent(c, HandleResponse(ctrl[c]))

\* the 5 s timeout of request r fires
FxTimeout(c, r) ==
    /\ c \in Allocated
    /\ r \in ctrl[c].timers
    /\ \A q \in ctrl[c].timers : r <= q
    /\ FxEvent(c, OnTimeout(ctrl[c], r))

\* one agent and one asynchronous call, under every event of the agent's client
NextFx ==
    \/ \E id \in Ids : AddFirstAgent(id)
    \/ \E id \in Ids : RemoveAgent(id)
    \/ DisconnectAll
    \/ \E call \in FxCalls, id \in Ids \cup {Null} : FxStart(call, id)
    \/ FxWake
    \/ \E c \in Ctrls : Tick(c)
    \/ \E c \in Ctrls, s \in Socks : ConnectOk(c, s)
    \/ \E c \in Ctrls, s \in Socks : ConnectFail(c, s)
    \/ \E c \in Ctrls, s \in Socks : PeerClose(c, s)
    \/ \E c \in Ctrls, s \in Socks : SockError(c, s)
    \/ \E c \in Ctrls, s \in Socks : CloseEvent(c, s)
    \/ \E c \in Ctrls, s \in Socks : FxData(c, s)
    \/ \E c \in Ctrls, r \in Reqs : FxTimeout(c, r)

SpecFx == Init /\ [][NextFx]_vars

\* timers that are due fire: the sleeps of an effect and the 5 s request timeouts
FxFairness ==
    /\ WF_vars(FxWake)
    /\ \A c \in Ctrls, r \in Reqs : WF_vars(FxTimeout(c, r))

SpecFxLive == Init /\ [][NextFx]_vars /\ FxFairness

\* ---- two agents side by side ---------------------------------------------------
\* the second addAgent of a deployment
AddSecondAgent(id) == nextCtrl = 1 /\ AddAgent(id)

\* two agents: requests, frames, timeouts, closes and removal of either; reconnects are
\* left out (after a close the reconnect timer stays armed)
NextPair ==
    \/ \E id \in Ids : AddFirstAgent(id)
    \/ \E id \in Ids : AddSecondAgent(id)
    \/ \E id \in Ids : RemoveAgent(id)
    \/ \E id \in Ids : Send(id)
    \/ \E c \in Ctrls, s \in Socks : ConnectOk(c, s)
    \/ \E c \in Ctrls, s \in Socks : PeerClose(c, s)
    \/ \E c \in Ctrls, s \in Socks : CloseEvent(c, s)
    \/ \E c \in Ctrls, s \in Socks : Data(c, s)
    \/ \E c \in Ctrls, r \in Reqs : Timeout(c, r)

SpecPair == Init /\ [][NextPair]_vars

\* ---- the requests of one agent, with timers that fire ---------------------------
NextReq ==
    \/ \E id \in Ids : AddFirstAgent(id)
    \/ \E id \in Ids : RemoveAgent(id)
    \/ \E id \in Ids \cup {Null} : Send(id)
    \/ \E c \in Ctrls : Tick(c)
    \/ \E c \in Ctrls, s \in Socks : ConnectOk(c, s)
    \/ \E c \in Ctrls, s \in Socks : PeerClose(c, s)
    \/ \E c \in Ctrls, s \in Socks : SockError(c, s)
    \/ \E c \in Ctrls, s \in Socks : CloseEvent(c, s)
    \/ \E c \in Ctrls, s \in Socks : Data(c, s)
    \/ \E c \in Ctrls, r \in Reqs : Timeout(c, r)

\* a 5 s request timeout that is due fires; nothing is assumed of the backend
ReqFairness == \A c \in Ctrls, r \in Reqs : WF_vars(Timeout(c, r))

SpecReq == Init /\ [][NextReq]_vars /\ ReqFairness

\* ---- addAgent and the connect it awaits ------------------------------------------
\* variant: a failed initial connect takes the agent out of the registry again
ConnectFailedRollsBack(c, s) ==
    /\ c \in Allocated
    /\ ~backendStable
    /\ ctrl[c].sock[s].st = "connecting"
    /\ ctrl' = [ctrl EXCEPT ![c] = ConnectRejected(SocketClose(SocketError(@, s), s), ctrl[c].sock[s].by)]
    /\ agents' = SelectSeq(agents, LAMBDA a : a.c # c)
    /\ lastResult' = IF ctrl[c].sock[s].by = "ctrl" THEN "false" ELSE "ok"
    /\ UNCHANGED <<defaultAgentId, nextCtrl, backendStable, ioVars>>

\* TCP connect of socket s failed: 'error', the catch of LCSController.connect, 'close';
\* the caller awaiting LCSController.connect (addAgent) gets false
ConnectFailed(c, s) ==
    /\ c \in Allocated
    /\ ~backendStable
    /\ ctrl[c].sock[s].st = "connecting"
    /\ ctrl' = [ctrl EXCEPT ![c] = ConnectRejected(SocketClose(SocketError(@, s), s), ctrl[c].sock[s].by)]
    /\ lastResult' = IF ctrl[c].sock[s].by = "ctrl" THEN "false" ELSE "ok"
    /\ UNCHANGED <<agents, defaultAgentId, nextCtrl, backendStable, ioVars>>

\* the first agent is added, and added again, while the backend refuses or accepts
\* connections
NextAdd ==
    \/ \E id \in Ids : AddFirstAgent(id)
    \/ \E id \in Ids : AddAgainAgent(id)
    \/ \E id \in Ids : RemoveAgent(id)
    \/ \E c \in Ctrls : Tick(c)
    \/ \E c \in Ctrls, s \in Socks : ConnectOk(c, s)
    \/ \E c \in Ctrls, s \in Socks : ConnectFailed(c, s)

SpecAdd == Init /\ [][NextAdd]_vars

\* ---- properties -----------------------------------------------------------
Destroyed == Allocated \ RegCtrls               \* controllers removed from the registry
PendingOf(k) == {r \in Reqs : k.promise[r] = Pending}
Outstanding(k) == {r \in PendingOf(k) : k.wire[r] = Written}
OpenSocks(k) == {s \in Socks : k.sock[s].st = "open"}
NotConnected(k) == ~k.isConnected \/ OpenSocks(k) = {}

\* C1: a client never has two requests on the wire that are still pending.
C1_AtMostOneOutstanding ==
    \A c \in Ctrls : Cardinality(Outstanding(ctrl[c])) <= 1

\* C2: a decoded frame resolves exactly one pending request (the head), so that
\* send1 gets R1 and send2 gets R2: no step resolves two requests of a client.
C2_OneRequestPerFrame ==
    [][\A c \in Ctrls :
         Cardinality({r \in Reqs : ctrl[c].promise[r] = Pending /\ ctrl'[c].promise[r] = Resolved}) <= 1]_vars

\* C3: a send to an agent that is not Connected (flag down, or no open socket) fails
\* with NotConnected and creates no pending entry, no timer, no listener, no write.
C3_NotConnectedRejects ==
    [][\A a \in Ids \cup {Null} :
         (Send(a) /\ Has(TargetId(a)) /\ NotConnected(ctrl[CtrlOf(TargetId(a))]))
            => (lastResult' = "NotConnected" /\ ctrl' = ctrl)]_vars

\* C3 witness: a send was rejected in the reconnect window of an agent that had served a request
C3_Witness ==
    /\ lastResult = "NotConnected"
    /\ \E c \in RegCtrls : ctrl[c].reconnectInterval /\ ctrl[c].requestId > 0

\* C4: when a socket closes, every pending request of the client fails with
\* ConnectionLost in that very step.
C4_CloseFailsPending ==
    [][\A c \in Ctrls, s \in Socks :
         (PeerClose(c, s) \/ SockError(c, s))
            => \A r \in PendingOf(ctrl[c]) : ctrl'[c].promise[r] = "ConnectionLost"]_vars

\* C5: every pending request has a live deadline; when it fires the request fails with
\* Timeout, its entry is removed, and every other entry and promise is left as it was.
C5_TimeoutRemovesOnlyItsRequest ==
    /\ [](\A c \in Ctrls : \A r \in PendingOf(ctrl[c]) : r \in ctrl[c].timers)
    /\ [][\A c \in Ctrls, r \in Reqs :
            Timeout(c, r)
               => /\ ctrl'[c].promise[r] = TimedOut
                  /\ ctrl'[c].responseCallbacks = ctrl[c].responseCallbacks \ {r}
                  /\ r \in ctrl[c].responseCallbacks
                  /\ \A q \in Reqs \ {r} : ctrl'[c].promise[q] = ctrl[c].promise[q]]_vars

\* C5 witness: one request has timed out while another of the same client is still pending
C5_Witness ==
    \E c \in Ctrls : \E r, q \in Reqs :
        /\ ctrl[c].promise[r] = TimedOut
        /\ ctrl[c].promise[q] = Pending
        /\ q \in ctrl[c].responseCallbacks

\* C6: disconnect() (through removeAgent) fails every pending request with Cancelled.
C6_DisconnectCancelsPending ==
    [][\A id \in Ids :
         (Has(id) /\ RemoveAgent(id))
            => \A r \in PendingOf(ctrl[CtrlOf(id)]) : ctrl'[CtrlOf(id)].promise[r] = "Cancelled"]_vars

\* C7: a destroyed agent stays Disconnected: not connected, no reconnect timer armed.
C7_DestroyedStaysDisconnected ==
    \A c \in Destroyed : ~ctrl[c].isConnected /\ ~ctrl[c].reconnectInterval

\* C8: in every reachable state, disconnect() twice leaves a controller as disconnect() once.
C8_DisconnectIdempotent ==
    \A c \in Ctrls : CtrlDisconnect(CtrlDisconnect(ctrl[c])) = CtrlDisconnect(ctrl[c])

\* C8 witness: disconnect() has torn down the socket of an agent that had a request pending
C8_Witness ==
    \E c \in Destroyed :
        /\ ctrl[c].socket # 0
        /\ ctrl[c].sock[ctrl[c].socket].st = "destroyed"
        /\ PendingOf(ctrl[c]) # {}

\* C9: a close or error of a socket, and a failed connect, leave the reconnect timer armed;
\* once the backend is reachable for good, a registered agent that is not connected
\* becomes connected (or is removed by the user).
C9_EventuallyReconnected ==
    /\ [][\A c \in Ctrls, s \in Socks :
            (PeerClose(c, s) \/ SockError(c, s) \/ ConnectFail(c, s))
               => ctrl'[c].reconnectInterval]_vars
    /\ \A c \in Ctrls :
          (backendStable /\ c \in RegCtrls /\ ~ctrl[c].isConnected)
             ~> (ctrl[c].isConnected \/ c \notin RegCtrls)

\* C9 witness: with the backend reachable for good, a registered agent has lost its
\* connection and waits, timer armed, for the next reconnect attempt
C9_Witness ==
    \E c \in RegCtrls :
        /\ backendStable
        /\ ~ctrl[c].isConnected
        /\ ctrl[c].reconnectInterval
        /\ \A s \in Socks : ctrl[c].sock[s].st = "closed"

\* C10: defaultAgentId is non-null exactly when the registry is non-empty.
C10_DefaultIffNonEmpty ==
    (defaultAgentId # Null) <=> (Len(agents) > 0)

\* C10 witness: the default was removed and another agent was promoted
C10_Witness ==
    /\ nextCtrl = MaxCtrl
    /\ Len(agents) = 1
    /\ agents[1].c = MaxCtrl
    /\ defaultAgentId = agents[1].id
    /\ lastResult = "ok"

\* C11: removing the current default agent makes the earliest-inserted agent that is
\* still registered the default, and leaves no default when no agent remains.
C11_RemoveDefaultPromotesEarliest ==
    [][\A id \in Ids :
        (id \in RegIds /\ defaultAgentId = id /\ RemoveAgent(id)) =>
            LET rest == {i \in 1..Len(agents) : agents[i].id # id}
            IN  IF rest = {}
                THEN defaultAgentId' = Null
                ELSE \E i \in rest : /\ defaultAgentId' = agents[i].id
                                     /\ defaultAgentId' \in RegIds'
                                     /\ \A j \in rest : agents[i].c <= agents[j].c]_vars

\* the first agent was removed while default and two later ones remain
C11_Witness ==
    /\ Len(agents) = 2
    /\ nextCtrl >= 3
    /\ agents[1].c = 2
    /\ agents[2].c = 3
    /\ defaultAgentId = agents[1].id
    /\ lastResult = "ok"
\* C12: addAgent with an id that is already registered fails with DuplicateId and changes
\* nothing: registry, default, and the existing controller with its sockets, timers and
\* requests stay as they were, and no controller is constructed.
C12_DuplicateIdChangesNothing ==
    [][\A id \in Ids :
        (id \in RegIds /\ AddAgent(id)) =>
            /\ lastResult' = "DuplicateId"
            /\ UNCHANGED <<agents, defaultAgentId, nextCtrl, ctrl>>]_vars

\* a duplicate addAgent was refused while the registered agent was reconnecting
C12_Witness ==
    /\ lastResult = "DuplicateId"
    /\ \E c \in RegCtrls : /\ ctrl[c].reconnectInterval
                            /\ \E s \in Socks : ctrl[c].sock[s].st = "connecting"
\* C13: the first registered id becomes the default, and registering a further agent
\* while a default exists never changes defaultAgentId.
C13_AddKeepsDefault ==
    [][\A id \in Ids :
        (id \notin RegIds /\ AddAgent(id)) =>
            /\ (agents = <<>> => defaultAgentId' = id)
            /\ (defaultAgentId # Null => defaultAgentId' = defaultAgentId)]_vars
Connected(c) == ctrl[c].isConnected /\ ctrl[c].cliConnected

\* C14: every agent-client operation has a manager proxy that resolves the target by the
\* given id or the default and forwards the same arguments to exactly that agent; when no
\* agent resolves the call fails with UnknownAgent and nothing is sent.
C14_EveryOperationProxied ==
    [][\A op \in ApiOps, id \in Ids \cup {Null} :
        ApiCall(op, id) =>
            IF ~Has(TargetId(id))
            THEN lastResult' = "UnknownAgent" /\ ctrl' = ctrl
            ELSE Connected(CtrlOf(TargetId(id))) =>
                    /\ lastCmd' = [op |-> op, args |-> SocketArgs]
                    /\ \A c \in Ctrls :
                          ctrl'[c].requestId =
                            ctrl[c].requestId + (IF c = CtrlOf(TargetId(id)) THEN 1 ELSE 0)]_vars

\* C15: a REST control request with valid parameters, made while the default agent is
\* registered and Connected, sends the command with (master, cu, lampNo, brightness)
\* through the default agent.
C15_RestControlReachesDefault ==
    [][\A m \in RestAddrs, cu \in RestAddrs, l \in RestLamps, b \in RestLevels :
        ( /\ RestControlLamp(m, cu, l, b)
          /\ b \in 0..100
          /\ Has(defaultAgentId)
          /\ Connected(CtrlOf(defaultAgentId)) ) =>
            /\ lastResult' = "ok"
            /\ lastCmd' = [op |-> "controlLamp", args |-> <<m, cu, l, b>>]
            /\ ctrl'[CtrlOf(defaultAgentId)].requestId =
                   ctrl[CtrlOf(defaultAgentId)].requestId + 1]_vars
\* C16: the decoder run on the encoder's output for a builder's frame F yields exactly one
\* complete frame with F's destAddr, srcAddr, op1, op2 and data, and consumes exactly the
\* encoded length.
C16_RoundTrip ==
    [][\A f \in RxFrames :
        (responseBuffer = <<>> /\ Receive(Encode(f))) =>
            /\ Len(emitted') = Len(emitted) + 1
            /\ responseBuffer' = <<>>
            /\ LET e == emitted'[Len(emitted')]
               IN  /\ e.totalLength = Len(Encode(f))
                   /\ e.destAddr = f.destAddr
                   /\ e.srcAddr = <<19, 0, 0, 0, 0>>
                   /\ e.op1 = f.op1 /\ e.op2 = f.op2
                   /\ e.data = f.data]_vars

\* C17: a bad head is dropped one byte at a time, so a frame that follows garbage is still
\* decoded and the stream never stalls behind a bad byte: whatever the decoder accepts on
\* its own it also decodes after a garbage byte, leaving nothing in the buffer.
C17_ResyncAfterGarbage ==
    [][\A f \in RxFrames, kind \in {"wire", "le"} :
        ( /\ responseBuffer = <<>>
          /\ ParseResponsePacket(Chunk(f, kind)).isComplete
          /\ Receive(<<255>> \o Chunk(f, kind)) ) =>
            /\ Len(emitted') = Len(emitted) + 1
            /\ responseBuffer' = <<>>]_vars

\* C18: a frame whose stored BCC differs from the BCC computed over destination address ..
\* data is corrupt and is never interpreted or emitted.
C18_CorruptFrameNeverEmitted ==
    \A i \in 1..Len(emitted) :
        LET e == emitted[i]
            body == e.destAddr \o e.srcAddr \o <<e.op1, e.op2>> \o e.data
        IN  e.bcc = CalculateBCC(body, 0, Len(body))

\* C19: buildPacket returns exactly 18 + len(data) bytes; the big-endian Length field
\* equals the buffer length; the first byte is 0x02 and the last 0x03; the source address
\* is 13 00 00 00 00; the BCC over destination address .. data is stored little-endian in
\* the two bytes before ETX.
C19_BuildPacketLayout ==
    packet # <<>> =>
        LET L == Len(packet)
        IN  /\ L = 18 + Len(frame.data)
            /\ \A i \in 0..(L - 1) : At(packet, i) \in 0..255
            /\ 256 * At(packet, 1) + At(packet, 2) = L
            /\ At(packet, 0) = 2
            /\ At(packet, L - 1) = 3
            /\ Slice(packet, 8, 13) = <<19, 0, 0, 0, 0>>
            /\ At(packet, L - 3) + 256 * At(packet, L - 2) = CalculateBCC(packet, 3, L - 3)

\* a block command for two lamps was built, and the two bytes of its BCC differ
C19_Witness ==
    /\ Len(packet) = 23
    /\ frame.op1 = 144
    /\ At(packet, 20) # At(packet, 21)

\* C20 (as stated): the frame of controlLamp(1, 1, 5, 80) has length 22 and data
\* 01 05 00 50; the word sum over [3..19) is 0xA369 (41833), its complement 0x5C96 (23702),
\* and the BCC bytes on the wire are 96 5C.
C20_ExampleAsStated ==
    frame = ControlLampDimmingArgs(1, 1, 5, 80) =>
        /\ Len(packet) = 22
        /\ Slice(packet, 15, 19) = <<1, 5, 0, 80>>
        /\ WordSum(packet, 3, 19) = 41833
        /\ CalculateBCC(packet, 3, 19) = 23702
        /\ Slice(packet, 19, 21) = <<150, 92>>

\* C20 (amended): the frame of controlLamp(1, 1, 5, 80) has length 22 and data 01 05 00 50;
\* the word sum over [3..19) is 0xA769 (42857), its complement 0x5896 (22678), and the BCC
\* bytes on the wire are 96 58.
C20_ExampleFrame ==
    frame = ControlLampDimmingArgs(1, 1, 5, 80) =>
        /\ Len(packet) = 22
        /\ Slice(packet, 15, 19) = <<1, 5, 0, 80>>
        /\ WordSum(packet, 3, 19) = 42857
        /\ CalculateBCC(packet, 3, 19) = 22678
        /\ Slice(packet, 19, 21) = <<150, 88>>

\* controlLamp(1, 1, 5, 80) was built
C20_Witness ==
    /\ frame = ControlLampDimmingArgs(1, 1, 5, 80)
    /\ packet = BuildPacket(<<19, 1, 1, 0, 0>>, 146, 0, <<1, 5, 0, 80>>)
\* C21: calculateBCC(buf, start, end) is the 16-bit one's complement of the end-around-carry
\* sum of the big-endian words of buf[start..end) (carries folded back until none is left),
\* lies in [0, 0xFFFF], pads an odd-length range with a zero low byte, and does not depend
\* on a byte at index >= end; for buildPacket end = 15 + len(data).
C21_BccContract ==
    packet # <<>> =>
        LET L == Len(packet)
            end == 15 + Len(frame.data)
            bcc == CalculateBCC(packet, 3, end)
            body == SubSeq(packet, 1, end)
            sum == WordSum(packet, 3, end)
            once == (sum % 65536) + (sum \div 65536)
            twice == (once % 65536) + (once \div 65536)
        IN  /\ bcc \in 0..65535
            /\ bcc = CalculateBCC(body \o <<0, 0, 0>>, 3, end)
            /\ bcc = CalculateBCC(body \o <<255, 255, 255>>, 3, end)
            /\ (end - 3) % 2 = 1 => bcc = CalculateBCC(body \o <<0, 255>>, 3, end + 1)
            /\ bcc = At(packet, L - 3) + 256 * At(packet, L - 2)
            /\ twice < 65536
            /\ bcc = 65535 - twice

\* C22: every command builder validates its arguments (brightness 0..100, lampNo 1..64,
\* masterAddr and cuAddr 1..255) and fails with InvalidArgument before encoding: no frame
\* is built for an invalid command.
C22_InvalidArgumentNotEncoded ==
    [][\A m \in Addrs, cu \in Addrs, l \in LampNos, b \in Levels :
        ( /\ Build(ControlLampDimmingArgs(m, cu, l, b))
          /\ ~(b \in 0..100 /\ l \in 1..64 /\ m \in 1..255 /\ cu \in 1..255) ) =>
            /\ lastResult' = "InvalidArgument"
            /\ UNCHANGED <<frame, packet>>]_vars
\* event e was emitted to the sockets for the running call
Noted(e) == \E n \in 1..Len(fx.notes) : fx.notes[n] = e

\* C23: a fade that runs to completion issues exactly 21 dim commands, i = 0..20, the i-th with
\* brightness round(start + (end - start) * i / 20); the first is start and the last is end.
C23_FadeCommands ==
    \A r \in FadeRanges :
        (fx.kind = "fade" /\ fx.plan = FadePlan(5, r[1], r[2])) =>
            /\ Len(fx.sent) <= 21
            /\ \A n \in 1..Len(fx.sent) :
                /\ fx.sent[n].lampNo = 5
                /\ 40 * fx.sent[n].brightness <= 2 * (20 * r[1] + (r[2] - r[1]) * (n - 1)) + 20
                /\ 40 * fx.sent[n].brightness > 2 * (20 * r[1] + (r[2] - r[1]) * (n - 1)) - 20
            /\ Noted("completed") =>
                (Len(fx.sent) = 21 /\ fx.sent[1].brightness = r[1] /\ fx.sent[21].brightness = r[2])

\* C24: the steps of a fade are serialized and fail-fast: a step is handed to sendPacket only
\* after the response of every earlier step has resolved, and once a step has failed
\* (NotConnected, Timeout) no later command is sent and the fade fails with that step's error.
C24_FadeSerializedFailFast ==
    [][fx'.kind = "fade" =>
        /\ Len(fx'.sent) > Len(fx.sent) =>
            /\ Len(fx'.sent) = Len(fx.sent) + 1
            /\ fx.acked = Len(fx.sent)
            /\ fx.error = "none"
        /\ fx.error # "none" => fx' = fx
        /\ (fx.error = "none" /\ fx'.error # "none") =>
            /\ fx'.sent = fx.sent
            /\ fx'.notes = Append(IF fx.kind = "none" THEN <<"started">> ELSE fx.notes, "error")
            /\ fx'.error = "Timeout" =>
                (fx.phase = "awaiting" /\ ctrl'[fx.c].promise[fx.req] = TimedOut)
            /\ fx'.error = "NotConnected" =>
                /\ fx.phase \in {"idle", "sleeping"}
                /\ ~ctrl[fx'.c].isConnected \/ ~ctrl[fx'.c].cliConnected
            /\ fx'.error = "UnknownAgent" => fx.phase = "idle"]_vars

C24_Witness == fx.kind = "fade" /\ fx.error = "Timeout" /\ fx.acked >= 2 /\ Len(fx.sent) = 3

\* C25: a wave over n lamps sends one dim command per list element in list order, awaits each
\* acknowledgement before sleeping, and sleeps only between commands: exactly n - 1 sleeps,
\* and it completes right after the last acknowledgement, with no trailing sleep.
C25_WaveSleepsBetween ==
    fx.kind = "wave" =>
        /\ \A n \in 1..Len(fx.sent) : fx.sent[n] = fx.plan[n]
        /\ fx.sleeps <= fx.acked
        /\ fx.sleeps <= Len(fx.plan) - 1
        /\ Noted("completed") => (Len(fx.sent) = Len(fx.plan) /\ fx.sleeps = Len(fx.plan) - 1)
        /\ (fx.acked = Len(fx.plan)) => Noted("completed")

\* C26: an effect is cancelled by disconnect: once the agent running a fade or a wave has been
\* removed (removeAgent, disconnectAll) between two steps, no further command of that
\* effect is written to any socket of that agent.
C26_RemovedAgentEffectStops ==
    [][(fx.kind \in {"fade", "wave"} /\ fx.c # 0 /\ fx.c \notin RegCtrls) =>
        ~(Len(fx'.sent) > Len(fx.sent) /\ ctrl'[fx.c].wire[fx'.req] = Written)]_vars

\* C27: the state-change broadcast of a control call is emitted only after the call's response
\* has resolved successfully; a failing call (unknown agent, NotConnected, Timeout) produces
\* no broadcast; and the broadcast never precedes the requester's own _response event.
C27_BroadcastAfterSuccess ==
    fx.kind = "control" =>
        /\ Noted("broadcast") =>
            /\ fx.acked = 1
            /\ fx.error = "none"
            /\ fx.notes = <<"response", "broadcast">>
        /\ fx.error # "none" =>
            /\ fx.error \in {"UnknownAgent", "NotConnected", "Timeout"}
            /\ fx.notes = <<"response_error">>
        /\ fx.phase # "done" => fx.notes = <<>>

C27_Witness == fx.kind = "control" /\ Noted("broadcast")

\* C28: agents are isolated: a frame on A's socket never resolves, times out or changes a
\* pending request of B, and a close or a disconnect (removal) of A leaves B's connection
\* state, pending set and reconnect timer unchanged.
C28_AgentsIsolated ==
    [][/\ \A c \in Ctrls, s \in Socks :
            (Data(c, s) \/ PeerClose(c, s) \/ CloseEvent(c, s)) =>
                \A d \in Ctrls \ {c} : ctrl'[d] = ctrl[d]
       /\ \A id \in RegIds :
            RemoveAgent(id) => \A d \in Ctrls \ {CtrlOf(id)} : ctrl'[d] = ctrl[d]]_vars

C28_Witness ==
    /\ Len(agents) = 2
    /\ ctrl[1].promise[1] = Resolved
    /\ ctrl[2].promise[1] = Pending
    /\ ctrl[2].isConnected

\* C30: a fade or a wave started through the push surface first reports 'started' and then,
\* if timers that are due fire, eventually reports exactly one of completed and error:
\* never both and never neither, whatever the backend does.
C30_EffectReportsOnce ==
    /\ [](fx.kind \in {"fade", "wave"} =>
            fx.notes \in {<<"started">>, <<"started", "completed">>, <<"started", "error">>})
    /\ (fx.kind \in {"fade", "wave"}) ~> (fx.kind \in {"fade", "wave"} /\ Len(fx.notes) = 2)

C30_Witness == fx.kind = "fade" /\ fx.notes = <<"started", "completed">> /\ Len(fx.sent) = 21

\* C29: a frame decoded while the client has no pending request is dropped: it resolves
\* nothing, it is not kept, and it is never delivered to a request sent afterwards (a new
\* request is pending until a later frame or its timeout).
C29_UnsolicitedFrameDropped ==
    [][/\ \A c \in Ctrls, s \in Socks :
            (Data(c, s) /\ PendingOf(ctrl[c]) = {}) => ctrl'[c] = ctrl[c]
       /\ \A id \in Ids \cup {Null} :
            Send(id) => \A c \in Ctrls, r \in Reqs :
                (ctrl'[c].promise[r] # ctrl[c].promise[r]) =>
                    (ctrl[c].promise[r] = Unsent /\ ctrl'[c].promise[r] = Pending)]_vars

C29_Witness ==
    \E c \in Allocated, s \in Socks :
        /\ ctrl[c].sock[s].st = "open"
        /\ ctrl[c].promise[1] = TimedOut
        /\ 1 \in ctrl[c].listeners
        /\ ctrl[c].promise[2] = Pending

\* C31: every accepted sendPacket settles exactly once: its promise is resolved with one
\* response or rejected with one error, a settled promise never changes again, and if timers
\* that are due fire it settles even when the backend never answers or the connection drops.
C31_SettlesExactlyOnce ==
    /\ [][\A c \in Ctrls, r \in Reqs :
            /\ ctrl[c].promise[r] \in {Resolved, TimedOut} => ctrl'[c].promise[r] = ctrl[c].promise[r]
            /\ ctrl[c].promise[r] = Pending => ctrl'[c].promise[r] \in {Pending, Resolved, TimedOut}]_vars
    /\ \A c \in Ctrls, r \in Reqs :
          (ctrl[c].promise[r] = Pending) ~> (ctrl[c].promise[r] \in {Resolved, TimedOut})

\* C31 witness: a request timed out after its connection had dropped, another was answered
C31_Witness ==
    \E c \in Ctrls :
        /\ ctrl[c].promise[1] = TimedOut
        /\ ctrl[c].promise[2] = Resolved
        /\ OpenSocks(ctrl[c]) = {}

\* C32: in every reachable state the number of 'response' listeners registered on a client
\* equals the number of entries of its responseCallbacks map: a request that is resolved or
\* that times out leaves no listener behind.
C32_ListenersMatchPending ==
    \A c \in Ctrls : Cardinality(ctrl[c].listeners) = Cardinality(ctrl[c].responseCallbacks)

\* C33: a client has at most one socket that is connecting or open at any time: neither a
\* reconnect tick during a connect attempt still in progress nor reconnectAgent on a
\* Connected agent leaves an older socket alive.
C33_OneLiveSocket ==
    \A c \in Ctrls :
        Cardinality({s \in Socks : ctrl[c].sock[s].st \in {"connecting", "open"}}) <= 1

\* C34: the controller's isConnected flag is true exactly when the client's current socket is
\* open; in particular the close of a socket that reconnectAgent replaced does not mark the
\* agent disconnected, or arm the reconnect timer, while its current socket is open.
C34_FlagIffCurrentSocketOpen ==
    \A c \in Allocated :
        /\ ctrl[c].isConnected <=> (ctrl[c].socket # 0 /\ ctrl[c].sock[ctrl[c].socket].st = "open")
        /\ (ctrl[c].socket # 0 /\ ctrl[c].sock[ctrl[c].socket].st = "open") => ~ctrl[c].reconnectInterval

C36_BufferEmptyOnConnect ==
    [][\A c \in Ctrls, s \in Socks : ConnectOk(c, s) => responseBuffer' = <<>>]_vars

\* C37: the read loop is independent of chunking: however the bytes that arrive next are
\* split into chunks (here: into up to three), handleResponse emits the same frames and
\* leaves the same residual buffer as when they arrive in one chunk.
C37_ChunkingIndependent ==
    \A d \in Streams :
        LET whole == Drain(responseBuffer \o d, emitted)
        IN  \A i \in 0..Len(d) : \A j \in i..Len(d) :
                LET one == Drain(responseBuffer \o SubSeq(d, 1, i), emitted)
                    two == Drain(one.buffer \o SubSeq(d, i + 1, j), one.out)
                    three == Drain(two.buffer \o SubSeq(d, j + 1, Len(d)), two.out)
                IN  three = whole

\* C37 witness: frames were decoded and bytes that are no complete frame are left over
C37_Witness == Len(emitted) >= 1 /\ Len(responseBuffer) >= 18

\* C38: whenever addAgent(id) resolves true (the connect it awaits succeeds), id is in the
\* registry and its controller is Connected at that moment, whatever removeAgent(id) and
\* disconnectAll() did while the connect was in flight; and no controller that is absent
\* from the registry holds an open socket.
C38_AddedMeansRegisteredConnected ==
    /\ [][\A c \in Ctrls, s \in Socks :
            (ConnectOk(c, s) /\ ctrl[c].sock[s].by = "ctrl") =>
                (c \in RegCtrls /\ ctrl'[c].isConnected)]_vars
    /\ [](\A c \in Destroyed : OpenSocks(ctrl[c]) = {})

\* C39: addAgent(id) whose initial connect fails resolves false but leaves the agent
\* registered (and default if it was the first) with the reconnect timer armed; nothing is
\* rolled back, so a later addAgent with the same id fails with DuplicateId.
C39_FailedConnectKeepsRegistration ==
    [][/\ \A c \in Ctrls, s \in Socks :
            (ConnectFailed(c, s) /\ ctrl[c].sock[s].by = "ctrl" /\ c \in RegCtrls) =>
                /\ lastResult' = "false"
                /\ agents' = agents
                /\ defaultAgentId' = defaultAgentId
                /\ ctrl'[c].reconnectInterval
                /\ ~ctrl'[c].isConnected
       /\ \A id \in RegIds :
            AddAgent(id) => (lastResult' = "DuplicateId" /\ agents' = agents /\ ctrl' = ctrl)]_vars

\* C39 witness: addAgent is refused for the id of the first agent, which is still the default
\* and waits with its timer armed after its initial connect failed
C39_Witness ==
    /\ lastResult = "DuplicateId"
    /\ Len(agents) >= 1
    /\ defaultAgentId = agents[1].id
    /\ agents[1].c = 1
    /\ ctrl[1].reconnectInterval
    /\ ~ctrl[1].isConnected
    /\ \A s \in Socks : ctrl[1].sock[s].st = "closed"

\* C40: in every reachable state defaultAgentId is null or the id of a registered agent;
\* setDefaultAgent with an unregistered id returns false and leaves the default unchanged,
\* and removeAgent of a non-default or unknown id leaves the default unchanged.
C40_DefaultIsRegistered ==
    /\ [](defaultAgentId = Null \/ defaultAgentId \in RegIds)
    /\ [][\A id \in Ids :
            /\ (SetDefaultAgent(id) /\ id \notin RegIds) =>
                (lastResult' = "false" /\ defaultAgentId' = defaultAgentId)
            /\ (RemoveAgent(id) /\ id # defaultAgentId) => defaultAgentId' = defaultAgentId]_vars

\* C40 witness: setDefaultAgent was refused for an id that had been removed, while the
\* default is an agent that was not added first
C40_Witness ==
    /\ lastResult = "false"
    /\ Len(agents) = 2
    /\ nextCtrl = 3
    /\ defaultAgentId = agents[2].id

====
